---------------------------- MODULE Spec2Model ----------------------------
(***************************************************************************)
(* LRID assessment pipeline: the approval-gated report workflow            *)
(* (generate_reports.js, approve_case.js, index.js, the server handlers),  *)
(* the scoring and consistency engine (scoring_engine.js) and the answer   *)
(* normalisers and aggregators of the report generators.                   *)
(***************************************************************************)
EXTENDS Integers, Sequences, FiniteSets, TLC

VARIABLES
    \* ---- workflow: the files of the storage root
    responsesFile,   \* case id -> the submission in data/responses_<id>.json
    draftFile,       \* case ids for which data/draft_<id>.json exists
    approvalFile,    \* case id -> content of approvals/approval_<id>.json
    payloadJson,     \* content of data/payload.json
    payloadCase,     \* case id -> content of data/payload_<id>.json
    outPdfs,         \* the PDF folders written under out/
    humanDecision,   \* history: case id -> last decision status a human recorded
    lastRun,         \* outcome of the last command or request
    \* ---- scoring engine: one runScoring call
    questionBank,    \* instrument.question_bank
    consistency,     \* consistency.v1.json: the rules and the confidence settings
    reverseIds,      \* scoring.reverse_scored_question_ids
    mcScores,        \* scoring.multiple_choice_scores
    answers,         \* responses.answers
    result,          \* what runScoring returned (or that it threw)
    \* ---- pure helpers: one call of a normaliser / aggregator
    call,            \* the function applied and its arguments
    ret,             \* its return value
    \* ---- asynchronous parts: a request or a page and what it waits for
    report,          \* one intake request: the handler and the PDF write stream
    panel,           \* the review panel: STATE, the requests in flight, the server
    page             \* the questionnaire page: the question shown and its requests

wfVars == <<responsesFile, draftFile, approvalFile, payloadJson, payloadCase,
            outPdfs, humanDecision, lastRun>>
seVars == <<questionBank, consistency, reverseIds, mcScores, answers, result>>
fnVars == <<call, ret>>
uiVars == <<report, panel, page>>
vars == <<responsesFile, draftFile, approvalFile, payloadJson, payloadCase,
          outPdfs, humanDecision, lastRun,
          questionBank, consistency, reverseIds, mcScores, answers, result,
          call, ret, report, panel, page>>

\* no intake request being served, no review panel and no questionnaire open
ReportIdle == report = [pc |-> "idle"]
PanelIdle == panel = [pc |-> "idle"]
PageIdle == page = [pc |-> "idle"]
UiIdle == ReportIdle /\ PanelIdle /\ PageIdle

-----------------------------------------------------------------------------
(* Bounds of the model *)

MaxPdfs == 1        \* PDF folders written in one behaviour
MaxAnswers == 3     \* entries of responses.answers in one submission
MaxItems == 2       \* answers handed to one call of an aggregator

-----------------------------------------------------------------------------
(* JavaScript numbers as exact rationals [n, d]; d = 0 encodes the two     *)
(* non-numbers: null (n = 0) and NaN (n = 1).                              *)

Null == [n |-> 0, d |-> 0]
NaN == [n |-> 1, d |-> 0]
IsNum(x) == x.d > 0

Abs(i) == IF i < 0 THEN -i ELSE i

RECURSIVE Gcd(_, _)
Gcd(a, b) == IF b = 0 THEN a ELSE Gcd(b, a % b)

Rat(p, q) ==
    LET g == Gcd(Abs(p), q)
    IN  IF p = 0 THEN [n |-> 0, d |-> 1] ELSE [n |-> p \div g, d |-> q \div g]

Num(i) == [n |-> i, d |-> 1]

RatAdd(x, y) == Rat(x.n * y.d + y.n * x.d, x.d * y.d)
RatSub(x, y) == Rat(x.n * y.d - y.n * x.d, x.d * y.d)
RatDivInt(x, k) == Rat(x.n, x.d * k)
RatMulInt(x, k) == Rat(x.n * k, x.d)
RatLeq(x, y) == x.n * y.d <= y.n * x.d
RatLt(x, y) == x.n * y.d < y.n * x.d
RatIsInt(x) == IsNum(x) /\ x.d = 1

\* the relational operators of JavaScript on a number, null or NaN: null
\* compares as 0, and every comparison with NaN is false
Relational(x) == IF x = Null THEN Num(0) ELSE x
JsLeq(x, y) ==
    IsNum(Relational(x)) /\ IsNum(Relational(y)) /\ RatLeq(Relational(x), Relational(y))
JsLt(x, y) ==
    IsNum(Relational(x)) /\ IsNum(Relational(y)) /\ RatLt(Relational(x), Relational(y))

\* Number(x.toFixed(k)) for 10^k = scale: nearest multiple of 1/scale,
\* a tie going away from zero.
ToFixed(x, scale) ==
    LET p == Abs(x.n) * scale
        q == x.d
        m == (2 * p + q) \div (2 * q)
    IN  Rat(IF x.n < 0 THEN -m ELSE m, scale)

\* Math.round: nearest integer, a tie going up.
MathRound(x) == Num((2 * x.n + x.d) \div (2 * x.d))

RatMax(x, y) == IF RatLeq(x, y) THEN y ELSE x
RatMin(x, y) == IF RatLeq(x, y) THEN x ELSE y

RECURSIVE SumSeq(_)
SumSeq(s) == IF s = <<>> THEN Num(0) ELSE RatAdd(Head(s), SumSeq(Tail(s)))

-----------------------------------------------------------------------------
(* Workflow: responses -> draft -> (approval gate) -> payload -> pdf       *)

Cases == {"c1", "c2"}

\* the content of a responses file: no file, or the submission stored in it
NoFile == "none"
Submissions == {"s1", "s2", "s3"}
\* the report workflow follows one submission per case
FirstSubmission == {"s1"}

\* decision.status as approve_case.js reads it; "" stands for a missing status
Statuses == {"APPROVE", "ADJUST", "DEBRIEF", "PENDING", ""}

\* adjustments.dimension_scores_override.DI of an approval: null, or the score
\* the expert sets
Overrides == {Null, Num(5)}
\* what the operator records: a status, and with ADJUST possibly an override
Decisions ==
    {[status |-> st, override |-> Null] : st \in Statuses}
    \cup {[status |-> "ADJUST", override |-> ov] : ov \in Overrides}
\* draft_scoring.dimension_scores.DI of every draft build_draft.js writes here
DraftScore == Num(3)

NoApproval == [status |-> "NOFILE", origin |-> "none", override |-> Null]
NoPayload ==
    [case_id |-> "none", decision_status |-> "none", dimension_score |-> Null,
     override |-> Null]

\* approve_case.js, the template written when approval_<caseId>.json is missing
ApprovalTemplate == [status |-> "APPROVE", origin |-> "template", override |-> Null]

\* The files as one record, so that a command that runs other commands
\* (execSync) is the composition of their effects.
Files ==
    [responses |-> responsesFile, draft |-> draftFile, approval |-> approvalFile,
     payload |-> payloadJson, payloadOf |-> payloadCase, pdfs |-> outPdfs,
     exit |-> "ok"]

\* server.js handleIntakeSubmit / build_draft.js main: write draft_<caseId>.json
BuildDraft(fs, c) == [fs EXCEPT !.draft = @ \cup {c}]

\* approve_case.js main writing the template over an approval that exists
ApproveCaseResetting(fs, c, auto) ==
    LET created == fs.approval[c] = NoApproval
        fs1 == [fs EXCEPT !.approval[c] = ApprovalTemplate]
        payload == [case_id |-> c, decision_status |-> "APPROVE",
                    dimension_score |-> DraftScore, override |-> Null]
    IN  IF created /\ auto THEN [fs1 EXCEPT !.exit = "template"]
        ELSE [fs1 EXCEPT !.payload = payload, !.payloadOf[c] = payload,
                         !.exit = "payload"]

\* approve_case.js main, given an existing draft of case c
ApproveCase(fs, c, auto) ==
    LET created == fs.approval[c] = NoApproval
        fs1 == IF created
               THEN [fs EXCEPT !.approval[c] = ApprovalTemplate]
               ELSE fs
        approval == fs1.approval[c]
        status == IF approval.status = "" THEN "APPROVE" ELSE approval.status
        \* payload.draft and payload.approval are the two files as they are
        payload == [case_id |-> c, decision_status |-> status,
                    dimension_score |-> DraftScore, override |-> approval.override]
    IN  IF created /\ auto THEN [fs1 EXCEPT !.exit = "template"]
        ELSE IF status = "DEBRIEF" THEN [fs1 EXCEPT !.exit = "debrief"]
        ELSE [fs1 EXCEPT !.payload = payload, !.payloadOf[c] = payload,
                         !.exit = "payload"]

\* Whether a human has recorded the decision APPROVE or ADJUST for case c
HumanApproved(c) == humanDecision[c] \in {"APPROVE", "ADJUST"}

\* index.js main: the three PDFs of one case folder, rendered from payload.json.
\* approved records whether a human had approved that case when they were written,
\* override the override of the payload they were rendered from; writePdf prints
\* the case id, the subject, the status and the first answers, and no score
\* (dimension_score Null).
IndexJs(fs) ==
    [fs EXCEPT !.pdfs = @ \cup {[case_id |-> fs.payload.case_id,
                                 decision_status |-> fs.payload.decision_status,
                                 via |-> "index",
                                 approved |-> HumanApproved(fs.payload.case_id),
                                 override |-> fs.payload.override,
                                 dimension_score |-> Null]},
               !.exit = "pdf"]

\* generate_reports.js main
GenerateReports(fs, c) ==
    LET fs1 == BuildDraft(fs, c)
        fs2 == ApproveCase(fs1, c, FALSE)
    IN  IF fs2.payload = NoPayload THEN [fs2 EXCEPT !.exit = "waiting"]
        ELSE IndexJs(fs2)

\* POST /api/approval/finalize
Finalize(fs, c) ==
    LET fs1 == ApproveCase(fs, c, FALSE)
    IN  IF fs1.payload = NoPayload THEN [fs1 EXCEPT !.exit = "error"]
        ELSE IndexJs(fs1)

\* server.js handleIntakeSubmit: responses, draft and LRID_Report.pdf
IntakeSubmit(fs, c, sub) ==
    [fs EXCEPT !.responses[c] = sub, !.draft = @ \cup {c},
               !.pdfs = @ \cup {[case_id |-> c, decision_status |-> "none",
                                 via |-> "intake",
                                 approved |-> HumanApproved(c),
                                 override |-> Null,
                                 dimension_score |-> Null]},
               !.exit = "pdf"]

Commit(fs) ==
    /\ Cardinality(fs.pdfs) <= MaxPdfs
    /\ responsesFile' = fs.responses
    /\ draftFile' = fs.draft
    /\ approvalFile' = fs.approval
    /\ payloadJson' = fs.payload
    /\ payloadCase' = fs.payloadOf
    /\ outPdfs' = fs.pdfs
    /\ lastRun' = fs.exit

\* A responses file is put in data/ (questionnaire export, or the
\* /api/intake/submit of the review server, which only stores it).
StoreResponses(c, sub) ==
    /\ responsesFile[c] # sub
    /\ Commit([Files EXCEPT !.responses[c] = sub, !.exit = "stored"])
    /\ UNCHANGED <<humanDecision, seVars, fnVars, uiVars>>

\* node build_draft.js data/responses_<c>.json
RunBuildDraft(c) ==
    /\ responsesFile[c] # NoFile
    /\ c \notin draftFile
    /\ Commit([BuildDraft(Files, c) EXCEPT !.exit = "draft"])
    /\ UNCHANGED <<humanDecision, seVars, fnVars, uiVars>>

\* The operator edits approvals/approval_<c>.json and sets decision.status,
\* or the review panel saves an approval for the case.
OperatorDecides(c, st, ov) ==
    /\ c \in draftFile
    /\ approvalFile[c] # [status |-> st, origin |-> "operator", override |-> ov]
    /\ Commit([Files EXCEPT !.approval[c] = [status |-> st, origin |-> "operator",
                                             override |-> ov],
                            !.exit = "saved"])
    /\ humanDecision' = [humanDecision EXCEPT ![c] = st]
    /\ UNCHANGED <<seVars, fnVars, uiVars>>

\* node approve_case.js <draft> [--auto]   (--auto: approve_latest.js and
\* POST /api/approval/template)
RunApproveCase(c, auto) ==
    /\ c \in draftFile
    /\ Commit(ApproveCase(Files, c, auto))
    /\ UNCHANGED <<humanDecision, seVars, fnVars, uiVars>>

\* node index.js
RunIndexJs ==
    /\ payloadJson # NoPayload
    /\ Commit(IndexJs(Files))
    /\ UNCHANGED <<humanDecision, seVars, fnVars, uiVars>>

\* node generate_reports.js data/responses_<c>.json
RunGenerateReports(c) ==
    /\ responsesFile[c] # NoFile
    /\ Commit(GenerateReports(Files, c))
    /\ UNCHANGED <<humanDecision, seVars, fnVars, uiVars>>

\* POST /api/approval/finalize {draft_file: draft_<c>.json}
RequestFinalize(c) ==
    /\ c \in draftFile
    /\ Commit(Finalize(Files, c))
    /\ UNCHANGED <<humanDecision, seVars, fnVars, uiVars>>

\* POST /api/intake/submit with case_id c
RequestIntakeSubmit(c, sub) ==
    /\ Commit(IntakeSubmit(Files, c, sub))
    /\ UNCHANGED <<humanDecision, seVars, fnVars, uiVars>>

WfInit ==
    /\ responsesFile = [c \in Cases |-> NoFile]
    /\ draftFile = {}
    /\ approvalFile = [c \in Cases |-> NoApproval]
    /\ payloadJson = NoPayload
    /\ payloadCase = [c \in Cases |-> NoPayload]
    /\ outPdfs = {}
    /\ humanDecision = [c \in Cases |-> "NONE"]
    /\ lastRun = "none"

-----------------------------------------------------------------------------
(* JavaScript values of a JSON document and their coercions                *)

JsNumber(r) == [t |-> "number", n |-> r, s |-> ""]
JsString(str) == [t |-> "string", n |-> Null, s |-> str]
JsBool(b) == [t |-> "boolean", n |-> Num(IF b THEN 1 ELSE 0), s |-> ""]
JsNull == [t |-> "null", n |-> Null, s |-> ""]
JsUndefined == [t |-> "undefined", n |-> Null, s |-> ""]

\* The strings of the model that StringToNumber reads as a number; every
\* other string of the model is read as NaN. ("" and blanks are read as 0.)
NumericText ==
    ("" :> Num(0)) @@ (" " :> Num(0)) @@ ("0" :> Num(0)) @@ ("1" :> Num(1)) @@
    ("2" :> Num(2)) @@ ("3" :> Num(3)) @@ ("4" :> Num(4)) @@ ("5" :> Num(5)) @@
    ("7" :> Num(7)) @@ ("3.5" :> Rat(7, 2)) @@ ("-1" :> Num(-1)) @@
    ("50" :> Num(50)) @@ ("100" :> Num(100)) @@ ("150" :> Num(150)) @@
    (" 4 " :> Num(4))

\* The numerals Number.prototype.toString produces
CanonicalNumerals ==
    {"0", "1", "2", "3", "4", "5", "7", "3.5", "-1", "50", "100", "150"}

StringToNumber(str) ==
    IF str \in DOMAIN NumericText THEN NumericText[str] ELSE NaN

NumberToString(r) ==
    IF r = NaN THEN "NaN"
    ELSE IF \E str \in CanonicalNumerals : NumericText[str] = r
    THEN CHOOSE str \in CanonicalNumerals : NumericText[str] = r
    ELSE "#number"

\* Number(v)
JsToNumber(v) ==
    CASE v.t = "number" -> v.n
      [] v.t = "string" -> StringToNumber(v.s)
      [] v.t = "boolean" -> v.n
      [] v.t = "null" -> Num(0)
      [] OTHER -> NaN

\* String(v)
JsToString(v) ==
    CASE v.t = "number" -> NumberToString(v.n)
      [] v.t = "string" -> v.s
      [] v.t = "boolean" -> (IF v.n = Num(1) THEN "true" ELSE "false")
      [] v.t = "null" -> "null"
      [] OTHER -> "undefined"

-----------------------------------------------------------------------------
(* scoring_engine.js                                                       *)

Dims == <<"DI", "RP", "MA", "AC", "PR", "ED">>
DimSet == {Dims[i] : i \in 1..Len(Dims)}

\* mean() with the empty case of avg() in build_draft.js: 0 instead of null
MeanZeroWhenEmpty(nums) ==
    LET IsFinite(x) == IsNum(x)
        arr == SelectSeq(nums, IsFinite)
    IN  IF Len(arr) = 0 THEN Num(0) ELSE RatDivInt(SumSeq(arr), Len(arr))

\* mean(nums): the finite numbers of nums, null when there is none
mean(nums) ==
    LET IsFinite(x) == IsNum(x)
        arr == SelectSeq(nums, IsFinite)
    IN  IF Len(arr) = 0 THEN Null ELSE RatDivInt(SumSeq(arr), Len(arr))

\* scoreLikert5(val, reverse)
scoreLikert5(val, reverse) ==
    LET n == JsToNumber(val)
    IN  IF ~IsNum(n) \/ RatLt(n, Num(1)) \/ RatLt(Num(5), n) THEN Null
        ELSE IF reverse THEN RatSub(Num(6), n) ELSE n

\* A predicate of a consistency rule: {question_id, equals | in | gte_likert}
PredEquals(q, str) ==
    [question_id |-> q, kind |-> "equals", equals |-> str, in |-> {}, gte |-> Null]
PredIn(q, strs) ==
    [question_id |-> q, kind |-> "in", equals |-> "", in |-> strs, gte |-> Null]
PredGte(q, r) ==
    [question_id |-> q, kind |-> "gte_likert", equals |-> "", in |-> {}, gte |-> r]
PredNone(q) ==
    [question_id |-> q, kind |-> "none", equals |-> "", in |-> {}, gte |-> Null]

\* An entry of responses.answers: an object with (some of) question_id and
\* response, or the JSON value null.
Answer(q, v) == [json |-> "object", question_id |-> q, response |-> v]
NullEntry == [json |-> "null", question_id |-> "", response |-> JsUndefined]
\* byId[q] when no entry has that question_id
NoAnswer == [json |-> "undefined", question_id |-> "", response |-> JsUndefined]

\* evaluatePredicate(answer, pred)
evaluatePredicate(answer, pred) ==
    IF answer = NoAnswer THEN FALSE
    ELSE LET r == answer.response
         IN  CASE pred.kind = "equals" -> JsToString(r) = pred.equals
               [] pred.kind = "in" -> JsToString(r) \in pred.in
               [] pred.kind = "gte_likert" ->
                     LET n == JsToNumber(r)
                     IN  IsNum(n) /\ RatLeq(pred.gte, n)
               [] OTHER -> FALSE

\* instrument.v1.json, question_bank
QuestionBank ==
    << [question_id |-> "DI-1", dimension |-> "DI", type |-> "likert_5"],
       [question_id |-> "DI-2", dimension |-> "DI", type |-> "likert_5"],
       [question_id |-> "DI-3", dimension |-> "DI", type |-> "likert_5"],
       [question_id |-> "RP-1", dimension |-> "RP", type |-> "multiple_choice"],
       [question_id |-> "MA-1", dimension |-> "MA", type |-> "open_text"],
       [question_id |-> "ED-1", dimension |-> "ED", type |-> "likert_5"] >>

\* scoring.v1.json: the configurations the model ranges over
ReverseConfigs == {{}, {"DI-2"}}
McConfigs ==
    { [q \in {"RP-1"} |-> ("a" :> 0) @@ ("b" :> 2)],
      [q \in {"RP-1"} |-> ("a" :> 3)] }

\* consistency.v1.json, consistency_checks
Group(present, preds) == [present |-> present, preds |-> preds]
ConsistencyChecks ==
    << [cc_id |-> "CC-1", title |-> "t1", severity |-> "HIGH",
        logic |-> [type |-> "contradiction_pair",
                   if |-> Group(TRUE, <<PredGte("DI-1", Num(4))>>),
                   and |-> Group(TRUE, <<PredEquals("RP-1", "a")>>),
                   message |-> "m1"]],
       [cc_id |-> "CC-2", title |-> "t2", severity |-> "MEDIUM",
        logic |-> [type |-> "contradiction_pair",
                   if |-> Group(TRUE, <<PredIn("DI-2", {"1", "5"}),
                                        PredGte("DI-3", Num(2))>>),
                   and |-> Group(TRUE, <<>>),
                   message |-> "m2"]],
       [cc_id |-> "CC-3", title |-> "t3", severity |-> "LOW",
        logic |-> [type |-> "threshold",
                   if |-> Group(TRUE, <<>>),
                   and |-> Group(TRUE, <<>>),
                   message |-> "m3"]],
       [cc_id |-> "CC-4", title |-> "t4", severity |-> "CRITICAL",
        logic |-> [type |-> "contradiction_pair",
                   if |-> Group(FALSE, <<>>),
                   and |-> Group(TRUE, <<PredGte("ED-1", Num(0))>>),
                   message |-> "m4"]],
       [cc_id |-> "CC-5", title |-> "t5", severity |-> "LOW",
        logic |-> [type |-> "contradiction_pair",
                   if |-> Group(TRUE, <<PredEquals("MA-1", "free text"),
                                        PredNone("DI-1")>>),
                   and |-> Group(FALSE, <<>>),
                   message |-> "m5"]] >>

\* the defaults of runScoring for cc.confidence_adjustments, lines 114-116
BaseConfidence == Rat(85, 100)
PenaltyBySeverity ==
    ("LOW" :> Rat(3, 100)) @@ ("MEDIUM" :> Rat(6, 100)) @@ ("HIGH" :> Rat(10, 100))
DefaultPenalty == Rat(6, 100)
ConfidenceFloor == Rat(55, 100)

\* byId with the first entry of a question id kept
RECURSIVE byIdFirstWins(_, _)
byIdFirstWins(as, q) ==
    IF as = <<>> THEN NoAnswer
    ELSE IF Head(as).question_id = q THEN Head(as) ELSE byIdFirstWins(Tail(as), q)

\* for (const a of answers) byId[a.question_id] = a : the last entry wins
RECURSIVE byId(_, _)
byId(as, q) ==
    IF as = <<>> THEN NoAnswer
    ELSE LET a == as[Len(as)]
         IN  IF a.question_id = q THEN a ELSE byId(SubSeq(as, 1, Len(as) - 1), q)

\* the score of one question, lines 59-68
ItemScore(q, a, reverseSet, mc) ==
    CASE q.type = "likert_5" ->
            scoreLikert5(a.response, q.question_id \in reverseSet)
      [] q.type = "multiple_choice" ->
            IF q.question_id \in DOMAIN mc
               /\ JsToString(a.response) \in DOMAIN mc[q.question_id]
            THEN Num(mc[q.question_id][JsToString(a.response)])
            ELSE Null
      [] OTHER -> Null

\* the loop over the question bank, lines 55-77
RECURSIVE ScoredItems(_, _, _, _)
ScoredItems(bank, as, reverseSet, mc) ==
    IF bank = <<>> THEN <<>>
    ELSE LET q == Head(bank)
             a == byId(as, q.question_id)
             rest == ScoredItems(Tail(bank), as, reverseSet, mc)
         IN  IF a = NoAnswer THEN rest
             ELSE << [question_id |-> q.question_id, dimension |-> q.dimension,
                      type |-> q.type, response |-> a.response,
                      score |-> ItemScore(q, a, reverseSet, mc)] >> \o rest

SeqMap(s, F(_)) == [i \in 1..Len(s) |-> F(s[i])]

\* dimension_scores[d], lines 84-88
DimensionScore(items, d) ==
    LET InDim(x) == x.dimension = d /\ IsNum(x.score)
        ScoreOf(x) == x.score
    IN  mean(SeqMap(SelectSeq(items, InDim), ScoreOf))

\* OI ? Number(OI.toFixed(2)) : null, lines 128-129
RoundedIndex(x) == IF IsNum(x) /\ x.n # 0 THEN ToFixed(x, 100) ELSE Null

\* (logic.if || []).every(p => evaluatePredicate(byId[p.question_id], p))
GroupOk(group, as) ==
    \A i \in 1..Len(group.preds) :
        evaluatePredicate(byId(as, group.preds[i].question_id), group.preds[i])

\* ifOk || andOk in place of ifOk && andOk
RuleHitsEitherGroup(rule, as) ==
    /\ rule.logic.type = "contradiction_pair"
    /\ (GroupOk(rule.logic.if, as) \/ GroupOk(rule.logic.and, as))

\* without the test of logic.type, line 98
RuleHitsAnyType(rule, as) ==
    /\ GroupOk(rule.logic.if, as)
    /\ GroupOk(rule.logic.and, as)

RuleHits(rule, as) ==
    /\ rule.logic.type = "contradiction_pair"
    /\ GroupOk(rule.logic.if, as)
    /\ GroupOk(rule.logic.and, as)

\* the loop over the rules, left at the first hit
RECURSIVE HitsFirstOnly(_, _)
HitsFirstOnly(rules, as) ==
    IF rules = <<>> THEN <<>>
    ELSE IF RuleHits(Head(rules), as)
         THEN << [cc_id |-> Head(rules).cc_id, title |-> Head(rules).title,
                  severity |-> Head(rules).severity,
                  message |-> Head(rules).logic.message] >>
         ELSE HitsFirstOnly(Tail(rules), as)

\* the loop over the rules, lines 95-111
RECURSIVE Hits(_, _)
Hits(rules, as) ==
    IF rules = <<>> THEN <<>>
    ELSE (IF RuleHits(Head(rules), as)
          THEN << [cc_id |-> Head(rules).cc_id, title |-> Head(rules).title,
                   severity |-> Head(rules).severity,
                   message |-> Head(rules).logic.message] >>
          ELSE <<>>) \o Hits(Tail(rules), as)

\* cc.confidence_adjustments; a field that is absent is Null
Adjustments(base, penalty, floor) ==
    [base_confidence |-> base, per_cc_hit_penalty |-> penalty, floor |-> floor]
PenaltyMap(map) == [present |-> TRUE, map |-> map]
NoPenaltyMap == [present |-> FALSE, map |-> <<>>]
NoAdjustments == Adjustments(Null, NoPenaltyMap, Null)

\* Number(penalty[h.severity] ?? 0.06), lines 115 and 119
Penalty(adj, severity) ==
    LET penalty == IF adj.per_cc_hit_penalty.present
                   THEN adj.per_cc_hit_penalty.map ELSE PenaltyBySeverity
    IN  IF severity \in DOMAIN penalty THEN penalty[severity] ELSE DefaultPenalty

\* conf += in place of conf -=
RECURSIVE Credited(_, _, _)
Credited(adj, conf, hits) ==
    IF hits = <<>> THEN conf
    ELSE Credited(adj, RatAdd(conf, Penalty(adj, Head(hits).severity)), Tail(hits))

\* lines 118-120
RECURSIVE Charged(_, _, _)
Charged(adj, conf, hits) ==
    IF hits = <<>> THEN conf
    ELSE Charged(adj, RatSub(conf, Penalty(adj, Head(hits).severity)), Tail(hits))

\* lines 114 and 116
Base(adj) == IF adj.base_confidence = Null THEN BaseConfidence ELSE adj.base_confidence
Floor(adj) == IF adj.floor = Null THEN ConfidenceFloor ELSE adj.floor

\* without Math.max(floor, ...)
ConfidenceUnfloored(adj, hits) == ToFixed(Charged(adj, Base(adj), hits), 100)

\* line 120
Confidence(adj, hits) ==
    RatMax(Floor(adj), ToFixed(Charged(adj, Base(adj), hits), 100))

\* > in place of >=
LevelStrict(conf) ==
    IF RatLt(Rat(80, 100), conf) THEN "HIGH"
    ELSE IF RatLt(Rat(65, 100), conf) THEN "MEDIUM" ELSE "LOW"

Level(conf) ==
    IF RatLeq(Rat(80, 100), conf) THEN "HIGH"
    ELSE IF RatLeq(Rat(65, 100), conf) THEN "MEDIUM" ELSE "LOW"

NotRun == [state |-> "not run"]
Threw == [state |-> "threw"]

\* runScoring
runScoring(as, bank, reverseSet, mc, ccfg) ==
    IF \E i \in 1..Len(as) : as[i] = NullEntry
    THEN Threw      \* a.question_id of null, line 48
    ELSE
    LET items == ScoredItems(bank, as, reverseSet, mc)
        ds == [d \in DimSet |-> DimensionScore(items, d)]
        OI == mean(<<ds["DI"], ds["RP"], ds["AC"]>>)
        HSRI == mean(<<ds["DI"], ds["MA"], ds["PR"], ds["ED"]>>)
        hits == Hits(ccfg.consistency_checks, as)
        conf == Confidence(ccfg.confidence_adjustments, hits)
    IN  [state |-> "returned",
         scored_items |-> items,
         dimension_scores |-> ds,
         oi |-> RoundedIndex(OI),
         hsri |-> RoundedIndex(HSRI),
         hits |-> hits,
         confidence |-> [score |-> conf, level |-> Level(conf)]]

\* The entries a submission is built from
AnswerEntries ==
    { Answer("DI-1", JsNumber(Num(4))), Answer("DI-1", JsString("banana")),
      Answer("DI-2", JsNumber(Num(1))), Answer("DI-2", JsString("5")),
      Answer("DI-2", JsString("")),
      Answer("DI-3", JsNumber(Num(2))), Answer("DI-3", JsNumber(Num(7))),
      Answer("RP-1", JsString("a")), Answer("RP-1", JsString("b")),
      Answer("MA-1", JsString("free text")),
      Answer("ED-1", JsUndefined), Answer("ED-1", JsNumber(Num(3))),
      Answer("undefined", JsUndefined),
      NullEntry }

\* consistency.v1.json as shipped: the rules above, no confidence_adjustments
Consistency(rules, adj) == [consistency_checks |-> rules, confidence_adjustments |-> adj]

SeInit ==
    /\ questionBank = QuestionBank
    /\ consistency = Consistency(ConsistencyChecks, NoAdjustments)
    /\ reverseIds \in ReverseConfigs
    /\ mcScores \in McConfigs
    /\ answers = <<>>
    /\ result = NotRun

-----------------------------------------------------------------------------
(* generate_reports.js (report_one.js, executive-grade): answer parsing    *)

\* String.prototype.trim and toLowerCase on the strings of the model
TrimTable == (" " :> "") @@ (" 4 " :> "4") @@ ("agree " :> "agree")
LowerTable == ("No" :> "no") @@ ("Strongly Agree" :> "strongly agree")
trim(str) == IF str \in DOMAIN TrimTable THEN TrimTable[str] ELSE str
toLowerCase(str) == IF str \in DOMAIN LowerTable THEN LowerTable[str] ELSE str

LIKERT_TEXT ==
    ("strongly disagree" :> 1) @@ ("disagree" :> 2) @@ ("somewhat disagree" :> 2) @@
    ("neutral" :> 3) @@ ("neither agree nor disagree" :> 3) @@
    ("somewhat agree" :> 4) @@ ("agree" :> 4) @@ ("strongly agree" :> 5)

\* clamp(n, a, b) = Math.max(a, Math.min(b, n)); NaN stays NaN
clamp(n, a, b) == IF ~IsNum(n) THEN NaN ELSE RatMax(a, RatMin(b, n))

\* toScore0to100 on a finite number, rejecting instead of clamping
NumberTo0to100Rejecting(r) ==
    IF RatLeq(Num(1), r) /\ RatLeq(r, Num(5))
    THEN RatMulInt(RatDivInt(RatSub(r, Num(1)), 4), 100)
    ELSE IF RatLeq(Num(0), r) /\ RatLeq(r, Num(100)) THEN r
    ELSE Null

\* toScore0to100 on a finite number, lines 175-179
NumberTo0to100(r) ==
    IF RatLeq(Num(1), r) /\ RatLeq(r, Num(5))
    THEN RatMulInt(RatDivInt(RatSub(r, Num(1)), 4), 100)
    ELSE IF RatLeq(Num(0), r) /\ RatLeq(r, Num(100)) THEN r
    ELSE clamp(r, Num(0), Num(100))

\* toScore0to100(raw)
toScore0to100(raw) ==
    IF raw.t \in {"null", "undefined"} THEN Null
    ELSE IF raw.t = "boolean" THEN (IF raw.n = Num(1) THEN Num(100) ELSE Num(0))
    ELSE IF raw.t = "number" /\ IsNum(raw.n) THEN NumberTo0to100(raw.n)
    ELSE LET str == trim(JsToString(raw))
             asNum == StringToNumber(str)
             key == toLowerCase(str)
         IN  IF str = "" THEN Null
             ELSE IF IsNum(asNum) THEN NumberTo0to100(asNum)
             ELSE IF key \in DOMAIN LIKERT_TEXT THEN NumberTo0to100(Num(LIKERT_TEXT[key]))
             ELSE IF key \in {"yes", "y", "true"} THEN Num(100)
             ELSE IF key \in {"no", "n", "false"} THEN Num(0)
             ELSE Null

\* band(score), lines 217-223; null and undefined are both Null here
band(score) ==
    IF score = Null THEN "Insufficient data"
    ELSE IF JsLt(score, Num(35)) THEN "High Risk / Low Reliability"
    ELSE IF JsLt(score, Num(55)) THEN "Mixed / Context-Sensitive"
    ELSE IF JsLt(score, Num(75)) THEN "Generally Reliable"
    ELSE "High Reliability / Strong Signal"

-----------------------------------------------------------------------------
(* report_one.js (Report v1): scored domains                               *)

MAX_PER_ITEM == 4

\* id.match(/^([A-Z]{2})/) on the question ids of the model
DomainOfId(id) ==
    CASE id \in {"DI-1", "DI-2"} -> "DI"
      [] id \in {"RP-1"} -> "RP"
      [] OTHER -> "OT"

\* levelFromPct(pct).level
levelFromPct(pct) ==
    IF JsLeq(Num(75), pct) THEN "High"
    ELSE IF JsLeq(Num(50), pct) THEN "Moderate" ELSE "Developing"

\* groupAnswers(answers)[dom]: the values, null for a non-finite one
groupAnswers(as, dom) ==
    LET InDom(a) == DomainOfId(a.question_id) = dom
        ValueOf(a) == LET v == JsToNumber(a.value) IN IF IsNum(v) THEN v ELSE Null
    IN  SeqMap(SelectSeq(as, InDom), ValueOf)

\* one row of computeDomainStats, lines 53-73
DomainRow(items) ==
    LET n == Len(items)
        OrZero(v) == IF IsNum(v) THEN v ELSE Num(0)
        sum == SumSeq(SeqMap(items, OrZero))
        max == n * MAX_PER_ITEM
        pct == IF max > 0 THEN MathRound(RatMulInt(RatDivInt(sum, max), 100))
               ELSE Num(0)
    IN  [n |-> n, sum |-> sum, max |-> max, pct |-> pct, level |-> levelFromPct(pct)]

\* computeDomainStats(groupAnswers(answers))
computeDomainStats(as) ==
    LET rows == [d \in DimSet |-> DomainRow(groupAnswers(as, d))]
        RowSum(i) == rows[Dims[i]].sum
        totalSum == SumSeq([i \in 1..Len(Dims) |-> RowSum(i)])
        totalMax == SumSeq([i \in 1..Len(Dims) |-> Num(rows[Dims[i]].max)]).n
        overallPct == IF totalMax > 0
                      THEN MathRound(RatMulInt(RatDivInt(totalSum, totalMax), 100))
                      ELSE Num(0)
    IN  [rows |-> rows, totalSum |-> totalSum, totalMax |-> totalMax,
         overallPct |-> overallPct, overallLevel |-> levelFromPct(overallPct)]

-----------------------------------------------------------------------------
(* build_draft.js: the MVP draft scoring                                   *)

\* avg(nums): 0 when nums holds no number
avg(nums) ==
    LET IsNumber(x) == IsNum(x)
        arr == SelectSeq(nums, IsNumber)
    IN  IF Len(arr) = 0 THEN Num(0) ELSE RatDivInt(SumSeq(arr), Len(arr))

\* bandsCfg of main, line 59
bandsCfg == [risk_zone_max |-> Rat(279, 100), mixed_max |-> Rat(330, 100)]

\* bandFor(score, cfg)
bandFor(score, cfg) ==
    IF JsLeq(score, cfg.risk_zone_max) THEN "Risk Zone"
    ELSE IF JsLeq(score, cfg.mixed_max) THEN "Mixed / Context-dependent"
    ELSE "Functional Strength"

\* values[i], lines 63-68: a number, NaN, or null (no value)
DraftValue(a) ==
    IF a.json = "null" THEN Null
    ELSE IF a.type = "scale" THEN clamp(JsToNumber(a.value), Num(1), Num(5))
    ELSE IF a.type = "single_choice"
    THEN LET v == JsToNumber(a.value)
         IN  clamp(IF IsNum(v) THEN RatAdd(v, Num(1)) ELSE NaN, Num(1), Num(5))
    ELSE Null

\* buckets[d]: values[i] for i % 6 = position of d, when typeof is number
Bucket(as, k) ==
    LET idx == SelectSeq([i \in 1..Len(as) |-> i],
                         LAMBDA i : (i - 1) % Len(Dims) = k - 1
                                    /\ DraftValue(as[i]) # Null)
    IN  [j \in 1..Len(idx) |-> DraftValue(as[idx[j]])]

\* draft.draft_scoring of build_draft.js main
DraftScoring(as) ==
    LET ds == [d \in DimSet |->
                 ToFixed(avg(Bucket(as, CHOOSE k \in 1..Len(Dims) : Dims[k] = d)), 100)]
        hsri == ToFixed(RatDivInt(
                   RatAdd(RatAdd(ds["DI"], ds["MA"]), RatAdd(ds["PR"], ds["ED"])), 4), 100)
        oi == ToFixed(RatDivInt(RatAdd(RatAdd(ds["DI"], ds["RP"]), ds["AC"]), 3), 100)
    IN  [dimension_scores |-> ds, hsri |-> hsri, oi |-> oi,
         bands |-> [hsri |-> bandFor(hsri, bandsCfg), oi |-> bandFor(oi, bandsCfg)]]

-----------------------------------------------------------------------------
(* One call of a normaliser or aggregator                                  *)

RawValues ==
    {JsNumber(Num(k)) : k \in {-1, 0, 1, 3, 4, 5, 7, 50, 150}}
    \cup {JsNumber(Rat(7, 2))}
    \cup {JsString(str) : str \in {"", " ", "4", " 4 ", "3.5", "7", "150", "-1",
                                   "banana", "yes", "No", "Strongly Agree",
                                   "neutral", "agree ", "true"}}
    \cup {JsBool(TRUE), JsBool(FALSE), JsNull, JsUndefined}

Predicates ==
    {PredGte("Q1", Num(k)) : k \in {-1, 0, 1, 4}}
    \cup {PredEquals("Q1", "4"), PredIn("Q1", {"yes", "true", "3.5"}), PredNone("Q1")}

\* an answer as report_one.js and build_draft.js read it
Item(q, type, v) == [json |-> "object", question_id |-> q, type |-> type, value |-> v]

ItemValues ==
    {JsNumber(Num(4)), JsNumber(Num(0)), JsString("3"), JsString(""),
     JsString("banana"), JsUndefined}

StatItems == {Item(q, "scale", v) : q \in {"DI-1", "DI-2", "RP-1"}, v \in ItemValues}
DraftItems == {Item("Q", type, v) : type \in {"scale", "single_choice", "text"},
                                    v \in ItemValues}

SeqsUpTo(S, n) == UNION {[1..k -> S] : k \in 0..n}

NoPred == PredNone("")
Call(fn, raw, reverse, pred, list) ==
    [fn |-> fn, raw |-> raw, reverse |-> reverse, pred |-> pred, list |-> list,
     cfg |-> bandsCfg]

\* a call of a classifier: the score (a number or null) and, for bandFor, cfg
Scores ==
    {Num(k) : k \in {0, 2, 3, 4, 5, 34, 35, 36, 49, 50, 55, 56, 74, 75, 76, 100}}
    \cup {Rat(279, 100), Rat(280, 100), Rat(330, 100), Rat(331, 100), Null}
BandConfigs == {bandsCfg, [risk_zone_max |-> Num(2), mixed_max |-> Num(4)]}
Classify(fn, score, cfg) ==
    [fn |-> fn, raw |-> IF score = Null THEN JsNull ELSE JsNumber(score),
     reverse |-> FALSE, pred |-> NoPred, list |-> <<>>, cfg |-> cfg]

Calls ==
    {Call("scoreLikert5", raw, rev, NoPred, <<>>) : raw \in RawValues, rev \in BOOLEAN}
    \cup {Call("toScore0to100", raw, FALSE, NoPred, <<>>) : raw \in RawValues}
    \cup {Call("evaluatePredicate", raw, present, pred, <<>>) :
            raw \in RawValues, present \in {TRUE}, pred \in Predicates}
    \cup {Call("evaluatePredicate", JsUndefined, FALSE, pred, <<>>) : pred \in Predicates}
    \cup {Call("computeDomainStats", JsUndefined, FALSE, NoPred, list) :
            list \in SeqsUpTo(StatItems, MaxItems)}
    \cup {Call("build_draft", JsUndefined, FALSE, NoPred, list) :
            list \in SeqsUpTo(DraftItems, MaxItems)}
    \cup {Classify("band", sc, bandsCfg) : sc \in Scores}
    \cup {Classify("bandFor", sc, cfg) : sc \in Scores, cfg \in BandConfigs}
    \cup {Classify("levelFromPct", sc, bandsCfg) : sc \in Scores}

IdleCall == Call("none", JsUndefined, FALSE, NoPred, <<>>)
NotCalled == [done |-> FALSE]
Returned(v) == [done |-> TRUE, value |-> v]

FnInit ==
    /\ call \in Calls
    /\ ret = NotCalled

CallScoreLikert5 ==
    /\ call.fn = "scoreLikert5" /\ ~ret.done
    /\ ret' = Returned(scoreLikert5(call.raw, call.reverse))
    /\ UNCHANGED <<call, wfVars, seVars, uiVars>>

CallToScore0to100 ==
    /\ call.fn = "toScore0to100" /\ ~ret.done
    /\ ret' = Returned(toScore0to100(call.raw))
    /\ UNCHANGED <<call, wfVars, seVars, uiVars>>

\* call.reverse tells whether byId holds an answer for the predicate's question
CallEvaluatePredicate ==
    /\ call.fn = "evaluatePredicate" /\ ~ret.done
    /\ ret' = Returned(evaluatePredicate(
                 IF call.reverse THEN Answer("Q1", call.raw) ELSE NoAnswer, call.pred))
    /\ UNCHANGED <<call, wfVars, seVars, uiVars>>

CallComputeDomainStats ==
    /\ call.fn = "computeDomainStats" /\ ~ret.done
    /\ ret' = Returned(computeDomainStats(call.list))
    /\ UNCHANGED <<call, wfVars, seVars, uiVars>>

CallBuildDraft ==
    /\ call.fn = "build_draft" /\ ~ret.done
    /\ ret' = Returned(DraftScoring(call.list))
    /\ UNCHANGED <<call, wfVars, seVars, uiVars>>

CallBand ==
    /\ call.fn = "band" /\ ~ret.done
    /\ ret' = Returned(band(call.raw.n))
    /\ UNCHANGED <<call, wfVars, seVars, uiVars>>

CallBandFor ==
    /\ call.fn = "bandFor" /\ ~ret.done
    /\ ret' = Returned(bandFor(call.raw.n, call.cfg))
    /\ UNCHANGED <<call, wfVars, seVars, uiVars>>

CallLevelFromPct ==
    /\ call.fn = "levelFromPct" /\ ~ret.done
    /\ ret' = Returned(levelFromPct(call.raw.n))
    /\ UNCHANGED <<call, wfVars, seVars, uiVars>>

-----------------------------------------------------------------------------
(* Specifications                                                          *)

WfIdle == WfInit
SeIdle ==
    /\ questionBank = QuestionBank
    /\ consistency = Consistency(ConsistencyChecks, NoAdjustments)
    /\ reverseIds = {}
    /\ mcScores = CHOOSE m \in McConfigs : TRUE
    /\ answers = <<>>
    /\ result = NotRun
FnIdle ==
    /\ call = IdleCall
    /\ ret = NotCalled

\* the report workflow
Init == WfInit /\ SeIdle /\ FnIdle /\ UiIdle

Next ==
    \/ \E c \in Cases, sub \in FirstSubmission : StoreResponses(c, sub)
    \/ \E c \in Cases : RunBuildDraft(c)
    \/ \E c \in Cases, d \in Decisions : OperatorDecides(c, d.status, d.override)
    \/ \E c \in Cases, auto \in BOOLEAN : RunApproveCase(c, auto)
    \/ RunIndexJs
    \/ \E c \in Cases : RunGenerateReports(c)
    \/ \E c \in Cases : RequestFinalize(c)
    \/ \E c \in Cases, sub \in FirstSubmission : RequestIntakeSubmit(c, sub)

Spec == Init /\ [][Next]_vars

\* the intake requests alone, with submissions that differ
IntakeNext ==
    \/ \E c \in Cases, sub \in Submissions : StoreResponses(c, sub)
    \/ \E c \in Cases, sub \in Submissions : RequestIntakeSubmit(c, sub)
    \/ \E c \in Cases : RunBuildDraft(c)

SpecIntake == Init /\ [][IntakeNext]_vars

\* one submission scored by runScoring
ReceiveAnswer(e) ==
    /\ result.state = "not run"
    /\ Len(answers) < MaxAnswers
    /\ answers' = Append(answers, e)
    /\ UNCHANGED <<questionBank, consistency, reverseIds, mcScores, result,
                   wfVars, fnVars, uiVars>>

Score ==
    /\ result.state = "not run"
    /\ result' = runScoring(answers, questionBank, reverseIds, mcScores, consistency)
    /\ UNCHANGED <<questionBank, consistency, reverseIds, mcScores, answers,
                   wfVars, fnVars, uiVars>>

ScoringInit == SeInit /\ WfIdle /\ FnIdle /\ UiIdle

ScoringNext ==
    \/ \E e \in AnswerEntries : ReceiveAnswer(e)
    \/ Score

SpecScoring == ScoringInit /\ [][ScoringNext]_vars

\* one call of a pure helper
NormalizeInit == FnInit /\ WfIdle /\ SeIdle /\ UiIdle

NormalizeNext ==
    \/ CallScoreLikert5
    \/ CallToScore0to100
    \/ CallEvaluatePredicate
    \/ CallComputeDomainStats
    \/ CallBuildDraft
    \/ CallBand
    \/ CallBandFor
    \/ CallLevelFromPct

SpecNormalize == NormalizeInit /\ [][NormalizeNext]_vars

\* runScoring under other schema files: instrument.v1.json, scoring.v1.json
\* and consistency.v1.json are read at every call, lines 39-41
Rule(id, severity, logic) ==
    [cc_id |-> id, title |-> id, severity |-> severity, logic |-> logic]
Pair(ifPreds, andPreds) ==
    [type |-> "contradiction_pair", if |-> Group(TRUE, ifPreds),
     and |-> Group(TRUE, andPreds), message |-> "contradiction"]
\* a rule of another, later shape
Threshold ==
    [type |-> "threshold", if |-> Group(TRUE, <<>>), and |-> Group(FALSE, <<>>),
     message |-> "threshold"]
\* rule.logic || {} for a rule without logic
NoLogic ==
    [type |-> "undefined", if |-> Group(FALSE, <<>>), and |-> Group(FALSE, <<>>),
     message |-> "undefined"]

RuleBook ==
    << Rule("H-1", "HIGH", Pair(<<PredGte("DI-1", Num(4))>>, <<>>)),
       Rule("X-1", "HIGH", Threshold),
       Rule("M-1", "MEDIUM", Pair(<<PredEquals("RP-1", "a")>>, <<>>)),
       Rule("H-2", "HIGH", Pair(<<PredGte("DI-2", Num(4))>>, <<>>)),
       Rule("N-1", "HIGH", NoLogic),
       Rule("U-1", "CRITICAL", Pair(<<PredGte("DI-1", Num(2))>>, <<>>)),
       Rule("H-3", "HIGH", Pair(<<>>, <<PredGte("ED-1", Num(3))>>)),
       Rule("L-1", "LOW", Pair(<<PredIn("DI-2", {"1", "2"})>>, <<>>)) >>

\* a rule on a question id that is not in the question bank
DanglingRule == Rule("D-1", "LOW", Pair(<<PredEquals("ZZ-9", "a")>>, <<>>))
\* a question of a dimension that is not one of the six
DanglingQuestion == [question_id |-> "ZZ-9", dimension |-> "XX", type |-> "likert_5"]
\* a scoring map for a question id that is not in the question bank
DanglingMap == [q \in {"RP-1", "ZZ-9"} |-> ("a" :> 3)]

Schema(bank, reverse, mc, rules, adj) ==
    [question_bank |-> bank, reverse |-> reverse, mc |-> mc,
     consistency |-> Consistency(rules, adj)]
PlainMap == [q \in {"RP-1"} |-> ("a" :> 3)]

Schemas ==
    { Schema(QuestionBank, {}, PlainMap, RuleBook, NoAdjustments),
      Schema(QuestionBank, {}, PlainMap, RuleBook,
             Adjustments(Rat(90, 100),
                         PenaltyMap(("LOW" :> Rat(5, 100)) @@ ("MEDIUM" :> Rat(10, 100))
                                    @@ ("HIGH" :> Rat(30, 100))),
                         Rat(60, 100))),
      Schema(QuestionBank, {}, PlainMap, RuleBook,
             Adjustments(Null, PenaltyMap("HIGH" :> Rat(10, 100)), Null)),
      Schema(QuestionBank, {}, PlainMap, RuleBook,
             Adjustments(Rat(60, 100), NoPenaltyMap, Rat(70, 100))),
      Schema(QuestionBank, {}, PlainMap, RuleBook,
             Adjustments(Rat(90, 100), NoPenaltyMap, Null)),
      Schema(QuestionBank, {}, PlainMap, <<>>, NoAdjustments),
      Schema(QuestionBank, {}, PlainMap, RuleBook \o <<DanglingRule>>, NoAdjustments),
      Schema(QuestionBank \o <<DanglingQuestion>>, {}, PlainMap, RuleBook, NoAdjustments),
      Schema(QuestionBank, {}, DanglingMap, RuleBook, NoAdjustments) }

RuleEntries ==
    { Answer("DI-1", JsNumber(Num(4))), Answer("DI-1", JsNumber(Num(2))),
      Answer("DI-2", JsNumber(Num(5))), Answer("DI-2", JsNumber(Num(1))),
      Answer("RP-1", JsString("a")), Answer("ED-1", JsNumber(Num(3))),
      Answer("ZZ-9", JsString("a")) }

ConsistencyInit ==
    /\ \E sch \in Schemas :
          /\ questionBank = sch.question_bank
          /\ consistency = sch.consistency
          /\ reverseIds = sch.reverse
          /\ mcScores = sch.mc
    /\ answers = <<>>
    /\ result = NotRun
    /\ WfIdle /\ FnIdle /\ UiIdle

ConsistencyNext ==
    \/ \E e \in RuleEntries : ReceiveAnswer(e)
    \/ Score

SpecConsistency == ConsistencyInit /\ [][ConsistencyNext]_vars

-----------------------------------------------------------------------------
(* Properties                                                              *)

\* C1: no PDF is written for a case before a human has recorded the decision
\* APPROVE or ADJUST for it (an auto-created approval template is no decision).
C1_NoPdfBeforeHumanApproval == \A p \in outPdfs : p.approved

Returned_ == result.state = "returned"
ItemSet == {result.scored_items[i] : i \in 1..Len(result.scored_items)}
HitIds == {result.hits[i].cc_id : i \in 1..Len(result.hits)}

\* What the claims call a malformed entry: the JSON value null, an object
\* without its fields, or a response that is no value of the question's type.
BadResponses == {JsString("banana"), JsString(""), JsNumber(Num(7)), JsUndefined}
Malformed(e) ==
    \/ e.json = "null"
    \/ e.question_id = "undefined"
    \/ e.response \in BadResponses

Without(s, i) == SubSeq(s, 1, i - 1) \o SubSeq(s, i + 1, Len(s))
NoDuplicateIds(s) ==
    \A i, j \in 1..Len(s) : i # j => s[i].question_id # s[j].question_id

\* C2: with exactly one malformed entry in the answers (and no question
\* answered twice) runScoring returns, the item of that entry has score null,
\* and every other item score and every dimension mean are what they are
\* without the entry.
C2_OneBadAnswerIsAbsorbed ==
    result.state # "not run" =>
        \A i \in 1..Len(answers) :
            ( /\ Malformed(answers[i])
              /\ \A j \in 1..Len(answers) : j # i => ~Malformed(answers[j])
              /\ NoDuplicateIds(answers) )
            => /\ Returned_
               /\ \A x \in ItemSet :
                     x.question_id = answers[i].question_id => x.score = Null
               /\ LET clean == runScoring(Without(answers, i), questionBank, reverseIds,
                                         mcScores, consistency)
                  IN  /\ clean.dimension_scores = result.dimension_scores
                      /\ \A x \in ItemSet :
                            x.question_id # answers[i].question_id
                            => \E k \in 1..Len(clean.scored_items) :
                                  clean.scored_items[k] = x

RECURSIVE SumOfScores(_)
SumOfScores(S) ==
    IF S = {} THEN Num(0)
    ELSE LET x == CHOOSE y \in S : TRUE
         IN  RatAdd(x.score, SumOfScores(S \ {x}))

ScorableIn(d) == {x \in ItemSet : x.dimension = d /\ IsNum(x.score)}

\* C3: each dimension score is the arithmetic mean of the non-null scores of
\* the scored items of that dimension, and null when there is no such item.
C3_DimensionScoreIsMean ==
    Returned_ =>
        \A d \in DimSet :
            IF ScorableIn(d) = {}
            THEN result.dimension_scores[d] = Null
            ELSE /\ IsNum(result.dimension_scores[d])
                 /\ RatMulInt(result.dimension_scores[d], Cardinality(ScorableIn(d)))
                       = SumOfScores(ScorableIn(d))

\* C3 witness: a dimension with two scored items and a fractional mean, next
\* to a dimension whose only item has no score.
C3_Witness ==
    /\ Returned_
    /\ result.dimension_scores["DI"] = Rat(5, 2)
    /\ \E x \in ItemSet : x.dimension = "ED" /\ x.score = Null
    /\ result.dimension_scores["ED"] = Null

\* an answer value that carries a number
ScorableValue(v) ==
    \/ v.t = "number" /\ IsNum(v.n)
    \/ v.t = "string" /\ trim(v.s) # "" /\ IsNum(StringToNumber(v.s))

Blanked(list) ==
    [i \in 1..Len(list) |->
        IF ScorableValue(list[i].value) THEN list[i]
        ELSE [list[i] EXCEPT !.value = JsUndefined]]

\* C4: an answer that is missing, empty or non-numeric contributes nothing to
\* its dimension aggregate: not to the sum, not to the item count or the
\* maximum used as denominator, and not as any number.
C4_UnscorableContributesNothing ==
    ret.done =>
        /\ call.fn = "computeDomainStats" =>
              \A d \in DimSet :
                 LET scorable == {i \in 1..Len(call.list) :
                                    /\ DomainOfId(call.list[i].question_id) = d
                                    /\ ScorableValue(call.list[i].value)}
                 IN  /\ ret.value.rows[d].n = Cardinality(scorable)
                     /\ ret.value.rows[d].max = MAX_PER_ITEM * Cardinality(scorable)
        /\ call.fn = "build_draft" =>
              ret.value.dimension_scores = DraftScoring(Blanked(call.list)).dimension_scores

Available(ds) == SelectSeq(ds, LAMBDA x : IsNum(x))
IndexOf(ds) ==
    IF Available(ds) = <<>> THEN Null
    ELSE ToFixed(RatDivInt(SumSeq(Available(ds)), Len(Available(ds))), 100)

\* C5: oi (over DI, RP, AC) and hsri (over DI, MA, PR, ED) are the mean of
\* their non-null dimension scores, and null only when all of them are null.
C5_IndexIsMeanOfAvailableDims ==
    Returned_ =>
        LET ds == result.dimension_scores
        IN  /\ result.oi = IndexOf(<<ds["DI"], ds["RP"], ds["AC"]>>)
            /\ result.hsri = IndexOf(<<ds["DI"], ds["MA"], ds["PR"], ds["ED"]>>)

TwoDecimals(x) == IsNum(x) => 100 % x.d = 0

\* C6: every numeric aggregate returned by runScoring (each dimension score,
\* oi and hsri) is rounded to 2 decimal places.
C6_AggregatesRoundedTo2 ==
    Returned_ =>
        /\ \A d \in DimSet : TwoDecimals(result.dimension_scores[d])
        /\ TwoDecimals(result.oi)
        /\ TwoDecimals(result.hsri)

\* C7: a likert_5 answer that coerces to an integer v in 1..5 scores v, or
\* 6 - v when reverse-scored; every other raw value scores null.
C7_Likert5Normalize ==
    (call.fn = "scoreLikert5" /\ ret.done) =>
        LET v == JsToNumber(call.raw)
        IN  IF RatIsInt(v) /\ v.n \in 1..5
            THEN ret.value = Num(IF call.reverse THEN 6 - v.n ELSE v.n)
            ELSE ret.value = Null

\* How a raw value reads as text: trimmed, lower-cased
TextOf(raw) == toLowerCase(trim(JsToString(raw)))
YesNoWords == {"yes", "y", "true", "no", "n", "false"}
IsLabel(raw) == TextOf(raw) \in DOMAIN LIKERT_TEXT \cup YesNoWords
\* the number a raw value carries, as a number or as numeric text
Carried(raw) ==
    IF raw.t = "number" THEN raw.n
    ELSE IF raw.t = "string" /\ trim(raw.s) # "" THEN StringToNumber(trim(raw.s))
    ELSE NaN
InBounds(x) == IsNum(x) /\ RatLeq(Num(0), x) /\ RatLeq(x, Num(100))

\* C8 as stated: toScore0to100 returns a number only for a number within the
\* bounds 0..100 or a well-known textual equivalent (boolean-like, Likert
\* label); every other raw value, a number outside the bounds included,
\* gives null.
C8_NullOutsideBounds ==
    (call.fn = "toScore0to100" /\ ret.done) =>
        (IsNum(ret.value) <=>
            \/ InBounds(Carried(call.raw))
            \/ call.raw.t = "boolean"
            \/ (call.raw.t = "string" /\ IsLabel(call.raw)))

\* C8 amended: toScore0to100 returns a number, always within 0..100, exactly
\* when the raw value is a boolean, carries a finite number, or is a yes/no
\* word or Likert label; a number below 0 gives 0 and a number above 100
\* gives 100 (clamped, not null), a number in 1..5 gives (v - 1) * 25, any
\* other number in 0..100 is returned as it is.
C8_ClampedOutsideBounds ==
    (call.fn = "toScore0to100" /\ ret.done) =>
        LET v == Carried(call.raw)
        IN  /\ IsNum(ret.value) <=>
                  \/ IsNum(v)
                  \/ call.raw.t = "boolean"
                  \/ (call.raw.t = "string" /\ IsLabel(call.raw))
            /\ IsNum(ret.value) => InBounds(ret.value)
            /\ ~IsNum(ret.value) => ret.value = Null
            /\ IsNum(v) =>
                  ret.value =
                     IF RatLt(v, Num(0)) THEN Num(0)
                     ELSE IF RatLt(Num(100), v) THEN Num(100)
                     ELSE IF RatLeq(Num(1), v) /\ RatLeq(v, Num(5))
                     THEN RatMulInt(RatSub(v, Num(1)), 25)
                     ELSE v

\* C8 witness: the number 150, outside the bounds, has been scored 100.
C8_Witness ==
    /\ call.fn = "toScore0to100" /\ ret.done
    /\ call.raw = JsNumber(Num(150))
    /\ ret.value = Num(100)

Answered(q) == \E i \in 1..Len(answers) : answers[i].question_id = q
PredTrue(p) == Answered(p.question_id) /\ evaluatePredicate(byId(answers, p.question_id), p)
AllTrue(group) ==
    ~group.present \/ \A i \in 1..Len(group.preds) : PredTrue(group.preds[i])

\* C9: a contradiction_pair rule is a hit if and only if every predicate of
\* its if group and every predicate of its and group is true of the answers;
\* an empty or absent group is true, a predicate on an unanswered question is
\* false, and nothing throws.
C9_HitIffAllPredicatesTrue ==
    (result.state # "not run" /\ \A i \in 1..Len(answers) : answers[i] # NullEntry) =>
        /\ Returned_
        /\ \A k \in 1..Len(ConsistencyChecks) :
              LET rule == ConsistencyChecks[k]
              IN  rule.logic.type = "contradiction_pair" =>
                     (rule.cc_id \in HitIds
                        <=> AllTrue(rule.logic.if) /\ AllTrue(rule.logic.and))

\* C9 witness: CC-1 hits with both groups true, CC-2 has an empty and group
\* and misses only because DI-3, which its if group tests, has no answer.
C9_Witness ==
    /\ Returned_
    /\ "CC-1" \in HitIds
    /\ "CC-2" \notin HitIds
    /\ ~Answered("DI-3")
    /\ PredTrue(ConsistencyChecks[2].logic.if.preds[1])

\* a response that is a number, or text that spells one
NumericResponse(raw) ==
    \/ raw.t = "number" /\ IsNum(raw.n)
    \/ raw.t = "string" /\ trim(raw.s) # "" /\ IsNum(StringToNumber(raw.s))

\* C10: a gte_likert predicate is true exactly when the response is numeric
\* and at least the threshold; for a non-numeric response (free text, empty
\* string, null, boolean) it is false for every threshold.
C10_GteLikertNumericOnly ==
    (call.fn = "evaluatePredicate" /\ call.pred.kind = "gte_likert" /\ ret.done) =>
        (ret.value <=>
            /\ call.reverse
            /\ NumericResponse(call.raw)
            /\ RatLeq(call.pred.gte, JsToNumber(call.raw)))

-----------------------------------------------------------------------------
(* Properties of the consistency rules and the confidence score            *)

Rules == consistency.consistency_checks
Adj == consistency.confidence_adjustments
HitIdSeq == [i \in 1..Len(result.hits) |-> result.hits[i].cc_id]
Matches(rule) ==
    /\ rule.logic.type = "contradiction_pair"
    /\ AllTrue(rule.logic.if)
    /\ AllTrue(rule.logic.and)

\* C11: the hits are exactly the rules whose predicates all match, each once
\* and in the order of their declaration; evaluation goes on after a match.
C11_HitsAreAllMatchesInOrder ==
    Returned_ =>
        LET matching == SelectSeq(Rules, Matches)
        IN  /\ HitIdSeq = [i \in 1..Len(matching) |-> matching[i].cc_id]
            /\ \A i \in 1..Len(result.hits) :
                  result.hits[i].severity = matching[i].severity

\* C11 witness: three rules match, the second and third after the first hit.
C11_Witness ==
    /\ Returned_
    /\ HitIdSeq = <<"H-1", "M-1", "U-1">>

\* a rule runScoring has no evaluation for
Skipped(rule) == rule.logic.type # "contradiction_pair"

\* C12: a rule whose logic type is not contradiction_pair, or that has no
\* logic, gives no hit and no error, and the hits and the confidence are what
\* they are when these rules are taken out of the rule file.
C12_UnknownRuleShapeIsSkipped ==
    result.state # "not run" =>
        /\ Returned_
        /\ \A k \in 1..Len(Rules) : Skipped(Rules[k]) => Rules[k].cc_id \notin HitIds
        /\ LET kept == SelectSeq(Rules, LAMBDA r : ~Skipped(r))
               without == runScoring(answers, questionBank, reverseIds, mcScores,
                                     Consistency(kept, Adj))
           IN  /\ result.hits = without.hits
               /\ result.confidence = without.confidence

\* C12 witness: the rule file holds a rule of another type and a rule without
\* logic between rules that hit.
C12_Witness ==
    /\ Returned_
    /\ \E k \in 1..Len(Rules) : Rules[k].logic = Threshold
    /\ \E k \in 1..Len(Rules) : Rules[k].logic = NoLogic
    /\ HitIdSeq = <<"H-1", "H-2", "U-1">>

\* the penalty map in force and the penalty the claim charges for a severity
PenaltyMapInForce ==
    IF Adj.per_cc_hit_penalty.present THEN Adj.per_cc_hit_penalty.map
    ELSE PenaltyBySeverity
ConfiguredMedium ==
    IF "MEDIUM" \in DOMAIN PenaltyMapInForce THEN PenaltyMapInForce["MEDIUM"]
    ELSE DefaultPenalty
ClaimedPenalty(severity) ==
    IF severity \in DOMAIN PenaltyMapInForce THEN PenaltyMapInForce[severity]
    ELSE ConfiguredMedium
RECURSIVE ClaimedSum(_)
ClaimedSum(hits) ==
    IF hits = <<>> THEN Num(0)
    ELSE RatAdd(ClaimedPenalty(Head(hits).severity), ClaimedSum(Tail(hits)))

\* C13: the confidence score is baseConfidence minus the sum over the hits of
\* the configured penalty of the hit's severity, a severity that is no key of
\* the penalty map being charged the configured MEDIUM penalty (then rounded
\* to 2 decimals and raised to the floor).
C13_ScoreIsBaseMinusPenalties ==
    Returned_ =>
        result.confidence.score =
            RatMax(Floor(Adj), ToFixed(RatSub(Base(Adj), ClaimedSum(result.hits)), 100))

\* C14: the confidence score is never below the configured floor.
C14_ScoreAtLeastFloor ==
    Returned_ => RatLeq(Floor(Adj), result.confidence.score)

\* C14 witness: two HIGH hits of 0.30 each take 0.90 below the floor 0.60,
\* and the score is the floor.
C14_Witness ==
    /\ Returned_
    /\ Adj.floor = Rat(60, 100)
    /\ HitIdSeq = <<"H-1", "H-2", "U-1">>
    /\ result.confidence.score = Rat(60, 100)

CountOf(severity, hits) ==
    Cardinality({i \in 1..Len(hits) : hits[i].severity = severity})
Severities == {"LOW", "MEDIUM", "HIGH", "CRITICAL"}
\* more is less with one more HIGH hit and the same hits otherwise
OneMoreHigh(more, less) ==
    /\ CountOf("HIGH", more) = CountOf("HIGH", less) + 1
    /\ \A sv \in Severities \ {"HIGH"} : CountOf(sv, more) = CountOf(sv, less)
Fewer(i) ==
    runScoring(Without(answers, i), questionBank, reverseIds, mcScores, consistency)

C16_LevelFromFinalScore ==
    Returned_ =>
        LET score == result.confidence.score
            level == result.confidence.level
        IN  /\ level = "HIGH" <=> RatLeq(Rat(80, 100), score)
            /\ level = "MEDIUM" <=> (RatLeq(Rat(65, 100), score) /\ RatLt(score, Rat(80, 100)))
            /\ level = "LOW" <=> RatLt(score, Rat(65, 100))
            /\ (Adj = NoAdjustments /\ HitIdSeq = <<"M-1">>)
                  => (score = Rat(79, 100) /\ level = "MEDIUM")

\* C16 witness: the example of the claim.
C16_Witness ==
    /\ Returned_
    /\ Adj = NoAdjustments
    /\ HitIdSeq = <<"M-1">>
    /\ result.confidence = [score |-> Rat(79, 100), level |-> "MEDIUM"]

BankIds == {questionBank[i].question_id : i \in 1..Len(questionBank)}
RuleRefs ==
    UNION { {r.logic.if.preds[i].question_id : i \in 1..Len(r.logic.if.preds)}
            \cup {r.logic.and.preds[i].question_id : i \in 1..Len(r.logic.and.preds)}
            : r \in {Rules[k] : k \in 1..Len(Rules)} }
\* the invariant of the instrument: no reference leaves the question bank or
\* the dimension set
Integrity ==
    /\ RuleRefs \subseteq BankIds
    /\ DOMAIN mcScores \subseteq BankIds
    /\ reverseIds \subseteq BankIds
    /\ \A i \in 1..Len(questionBank) : questionBank[i].dimension \in DimSet

\* C20: with a rule or a scoring map that references a question id outside
\* the question bank, or a question of a dimension outside the dimension set,
\* runScoring ends in an error and returns no result.
C20_DanglingReferenceHalts ==
    (result.state # "not run" /\ ~Integrity) => result.state = "threw"

-----------------------------------------------------------------------------
(* Properties of the band classifiers                                      *)

Cut(max, label) == [max |-> max, label |-> label]
\* the thresholds of a classifier in ascending order, and its top label
Cuts(fn, cfg) ==
    IF fn = "band"
    THEN << Cut(Num(35), "High Risk / Low Reliability"),
            Cut(Num(55), "Mixed / Context-Sensitive"),
            Cut(Num(75), "Generally Reliable") >>
    ELSE << Cut(cfg.risk_zone_max, "Risk Zone"),
            Cut(cfg.mixed_max, "Mixed / Context-dependent") >>
TopLabel(fn) ==
    IF fn = "band" THEN "High Reliability / Strong Signal" ELSE "Functional Strength"
\* the label of the first threshold whose upper bound is >= score
FirstBandNotExceeded(fn, cfg, score) ==
    LET cuts == Cuts(fn, cfg)
        closing == {i \in 1..Len(cuts) : RatLeq(score, cuts[i].max)}
    IN  IF closing = {} THEN TopLabel(fn)
        ELSE cuts[CHOOSE i \in closing : \A j \in closing : i <= j].label
RankOf(fn, cfg, label) ==
    LET cuts == Cuts(fn, cfg)
    IN  IF \E i \in 1..Len(cuts) : cuts[i].label = label
        THEN CHOOSE i \in 1..Len(cuts) : cuts[i].label = label
        ELSE Len(cuts) + 1
Classifier(fn, cfg, score) == IF fn = "band" THEN band(score) ELSE bandFor(score, cfg)

\* C17: band and bandFor return the label of the first threshold, in
\* ascending order, whose upper bound is >= the score, the top label above
\* every bound; a score equal to a cut point gets the band the cut point
\* closes, and a higher score never gets a lower band than a lower score.
C17_FirstBandNotExceeded ==
    (call.fn \in {"band", "bandFor"} /\ ret.done /\ call.raw.t = "number") =>
        /\ ret.value = FirstBandNotExceeded(call.fn, call.cfg, call.raw.n)
        /\ \A lower \in Scores \ {Null} :
              RatLeq(lower, call.raw.n)
              => RankOf(call.fn, call.cfg, Classifier(call.fn, call.cfg, lower))
                    <= RankOf(call.fn, call.cfg, ret.value)

\* the labels that place a score: the bands and levels of the classifiers
RealLabels ==
    {"High Risk / Low Reliability", "Mixed / Context-Sensitive", "Generally Reliable",
     "High Reliability / Strong Signal", "Risk Zone", "Mixed / Context-dependent",
     "Functional Strength", "High", "Moderate", "Developing"}
DimIndex(d) == CHOOSE k \in 1..Len(Dims) : Dims[k] = d

\* C18: band, bandFor and levelFromPct give a null score a label that is no
\* real band or level, and a dimension with no scorable answer is reported
\* neither as 0 nor in a real band or level by the aggregators built on them.
C18_NullScoreIsInsufficientData ==
    ret.done =>
        /\ (call.fn \in {"band", "bandFor", "levelFromPct"} /\ call.raw = JsNull)
              => ret.value \notin RealLabels
        /\ call.fn = "computeDomainStats" =>
              \A d \in DimSet :
                 (\A i \in 1..Len(call.list) :
                     DomainOfId(call.list[i].question_id) = d
                     => ~ScorableValue(call.list[i].value))
                 => /\ ret.value.rows[d].pct # Num(0)
                    /\ ret.value.rows[d].level \notin RealLabels
        /\ call.fn = "build_draft" =>
              /\ \A d \in DimSet :
                    Bucket(call.list, DimIndex(d)) = <<>>
                    => ret.value.dimension_scores[d] # Num(0)
              /\ (\A d \in DimSet : Bucket(call.list, DimIndex(d)) = <<>>)
                    => /\ ret.value.hsri # Num(0)
                       /\ ret.value.bands.hsri \notin RealLabels

-----------------------------------------------------------------------------
(* Properties of the approval overrides                                    *)

Payloads == ({payloadJson} \cup {payloadCase[c] : c \in Cases}) \ {NoPayload}

\* C19: when the approval of a case carries a non-null override for a
\* dimension score, the score of that dimension in the payload and in the
\* rendered report is the override and not the score of the draft.
C19_OverrideTakesPrecedence ==
    /\ \A p \in Payloads : p.override # Null => p.dimension_score = p.override
    /\ \A pdf \in outPdfs : pdf.override # Null => pdf.dimension_score = pdf.override

-----------------------------------------------------------------------------
(* Properties of duplicate answers                                         *)

Positions(q) == {i \in 1..Len(answers) : answers[i].question_id = q}
LastOf(q) == answers[CHOOSE i \in Positions(q) : \A j \in Positions(q) : j <= i]
LastTrue(p) ==
    Positions(p.question_id) # {} /\ evaluatePredicate(LastOf(p.question_id), p)
LastAllTrue(group) == \A i \in 1..Len(group.preds) : LastTrue(group.preds[i])

\* C22: with several answers of the same question id, the last of them in the
\* answers sequence gives the item's response and score and decides every
\* rule predicate on that question, and the question has exactly one scored
\* item.
C22_LastAnswerWins ==
    Returned_ =>
        /\ \A k \in 1..Len(questionBank) :
              LET q == questionBank[k]
                  items == {i \in 1..Len(result.scored_items) :
                               result.scored_items[i].question_id = q.question_id}
              IN  IF Positions(q.question_id) = {} THEN items = {}
                  ELSE /\ Cardinality(items) = 1
                       /\ \A i \in items :
                             /\ result.scored_items[i].response
                                   = LastOf(q.question_id).response
                             /\ result.scored_items[i].score
                                   = ItemScore(q, LastOf(q.question_id), reverseIds, mcScores)
        /\ \A k \in 1..Len(Rules) :
              Rules[k].logic.type = "contradiction_pair" =>
                 (Rules[k].cc_id \in HitIds
                    <=> LastAllTrue(Rules[k].logic.if) /\ LastAllTrue(Rules[k].logic.and))

\* C22 witness: DI-1 answered "banana" and then 4: the one DI-1 item scores 4
\* and CC-1, which tests DI-1 >= 4, hits.
C22_Witness ==
    /\ Returned_
    /\ answers = << Answer("DI-1", JsString("banana")), Answer("RP-1", JsString("a")),
                    Answer("DI-1", JsNumber(Num(4))) >>
    /\ \E x \in ItemSet : x.question_id = "DI-1" /\ x.score = Num(4)
    /\ "CC-1" \in HitIds

-----------------------------------------------------------------------------
(* Properties of the stored files                                          *)

\* C21: the stored responses of a case id are never changed by a later
\* intake request: a submission never goes into a file that holds another.
C21_StoredSubmissionNeverOverwritten ==
    [][\A c \in Cases :
          responsesFile[c] # NoFile => responsesFile'[c] = responsesFile[c]]_vars

\* C23: a run of approve_case that finds no approval file creates the
\* template and writes no payload, with or without --auto, and no PDF is
\* generated in that run.
C23_TemplateRunWritesNoPayload ==
    [][\A c \in Cases :
          (approvalFile[c] = NoApproval /\ approvalFile'[c] = ApprovalTemplate)
          => /\ payloadJson' = payloadJson
             /\ payloadCase' = payloadCase
             /\ outPdfs' = outPdfs]_vars

\* C24: a payload of a case is written only when the decision status of its
\* approval is APPROVE or ADJUST; with DEBRIEF, another value or no status
\* no payload file is written.
C24_PayloadOnlyForApproveOrAdjust ==
    [][\A c \in Cases :
          payloadCase'[c] # payloadCase[c]
          => approvalFile'[c].status \in {"APPROVE", "ADJUST"}]_vars

\* C26: when a finalize request or a one-command run for case c ends with
\* PDFs, they are rendered from a payload this run wrote for c: payload.json
\* is of case c and the decision of c is not DEBRIEF.
C26_RenderedPayloadIsOfThisRun ==
    [][\A c \in Cases :
          ((RunGenerateReports(c) \/ RequestFinalize(c)) /\ lastRun' = "pdf")
          => /\ payloadJson'.case_id = c
             /\ approvalFile'[c].status # "DEBRIEF"
             /\ \A pdf \in outPdfs' \ outPdfs : pdf.case_id = c]_vars

\* C27: an approval file that exists is changed by the operator only:
\* approve_case, alone or inside the one-command runner or a finalize
\* request, leaves it as it is whatever its status.
C27_ApproveCaseKeepsApproval ==
    [][\A c \in Cases :
          (approvalFile[c] # NoApproval /\ approvalFile'[c] # approvalFile[c])
          => \E d \in Decisions : OperatorDecides(c, d.status, d.override)]_vars

\* C27 witness: approve_case has written the payload of c1 from the
\* operator's ADJUST with an override, and the approval is still the operator's.
C27_Witness ==
    /\ approvalFile["c1"] = [status |-> "ADJUST", origin |-> "operator", override |-> Num(5)]
    /\ payloadCase["c1"].decision_status = "ADJUST"
    /\ payloadCase["c1"].override = Num(5)
    /\ lastRun = "payload"

-----------------------------------------------------------------------------
\* server.js, handleIntakeSubmit from the call of generateExecutiveSearchReport
\* on, and the write stream of the PDF. The function is the one that
\* require("./report_one") delivers; the repository holds three files for it.

ReportModules == {"generate_reports.js", "part_006", "report_one.js"}

\* the number of chunks the document pipes into the stream
PdfChunks == 2

ReportStart(m, to) ==
    [pc |-> "call", module |-> m, to |-> to, stream |-> "none",
     file |-> "missing", written |-> 0, read |-> "none", emailed |-> FALSE,
     response |-> "none", fileAtResponse |-> "none"]

\* line 294: the handler calls the function and awaits what it returns.
\* generate_reports.js returns a promise settled by the stream, part_006
\* returns undefined at once, report_one.js exports no such function.
CallGenerateExecutiveSearchReport ==
    /\ report.pc = "call"
    /\ report' =
         IF report.module = "report_one.js"
         THEN [report EXCEPT !.pc = "rejected"]
         ELSE [report EXCEPT !.stream = "created",
                             !.pc = IF report.module = "generate_reports.js"
                                    THEN "awaiting" ELSE "resumed"]
    /\ UNCHANGED <<panel, page, wfVars, seVars, fnVars>>

\* fs.createWriteStream opens the file asynchronously
StreamOpen ==
    /\ report.pc # "crashed"
    /\ report.stream = "created"
    /\ report' = [report EXCEPT !.stream = "open", !.file = "partial"]
    /\ UNCHANGED <<panel, page, wfVars, seVars, fnVars>>

StreamWrite ==
    /\ report.pc # "crashed"
    /\ report.stream = "open"
    /\ report.written < PdfChunks
    /\ report' = [report EXCEPT !.written = @ + 1]
    /\ UNCHANGED <<panel, page, wfVars, seVars, fnVars>>

\* "finish": every chunk is flushed; it resolves the promise of
\* generate_reports.js, nobody listens to it in part_006
StreamFinish ==
    /\ report.pc # "crashed"
    /\ report.stream = "open"
    /\ report.written = PdfChunks
    /\ report' = [report EXCEPT !.stream = "finished", !.file = "complete",
                                !.pc = IF @ = "awaiting" THEN "resumed" ELSE @]
    /\ UNCHANGED <<panel, page, wfVars, seVars, fnVars>>

\* "error": rejects the promise of generate_reports.js; in part_006 the
\* stream has no error listener, so the event ends the process
StreamError ==
    /\ report.pc # "crashed"
    /\ report.stream \in {"created", "open"}
    /\ report' = [report EXCEPT !.stream = "error",
                                !.pc = IF report.module = "generate_reports.js"
                                       THEN "rejected" ELSE "crashed"]
    /\ UNCHANGED <<panel, page, wfVars, seVars, fnVars>>

\* lines 312-334: with a recipient the handler reads the PDF and sends it;
\* a failed read or send is caught and leaves emailed false
ReadPdf ==
    /\ report.pc = "resumed"
    /\ report' =
         IF ~report.to THEN [report EXCEPT !.pc = "respond"]
         ELSE IF report.file = "missing"
              THEN [report EXCEPT !.read = "missing", !.pc = "respond"]
              ELSE [report EXCEPT !.read = report.file, !.pc = "sending"]
    /\ UNCHANGED <<panel, page, wfVars, seVars, fnVars>>

SendReportEmail(ok) ==
    /\ report.pc = "sending"
    /\ report' = [report EXCEPT !.emailed = ok, !.pc = "respond"]
    /\ UNCHANGED <<panel, page, wfVars, seVars, fnVars>>

\* lines 343-356: report_generated true with report_url
RespondReportGenerated ==
    /\ report.pc = "respond"
    /\ report' = [report EXCEPT !.response = "ok", !.fileAtResponse = report.file,
                                !.pc = "done"]
    /\ UNCHANGED <<panel, page, wfVars, seVars, fnVars>>

\* lines 357-360: the catch of the handler
RespondSubmitFailed ==
    /\ report.pc = "rejected"
    /\ report' = [report EXCEPT !.response = "500", !.pc = "done"]
    /\ UNCHANGED <<panel, page, wfVars, seVars, fnVars>>

ReportInit ==
    /\ \E m \in ReportModules, to \in BOOLEAN : report = ReportStart(m, to)
    /\ PanelIdle /\ PageIdle
    /\ WfIdle /\ SeIdle /\ FnIdle

ReportNext ==
    \/ CallGenerateExecutiveSearchReport
    \/ StreamOpen
    \/ StreamWrite
    \/ StreamFinish
    \/ StreamError
    \/ ReadPdf
    \/ \E ok \in BOOLEAN : SendReportEmail(ok)
    \/ RespondReportGenerated
    \/ RespondSubmitFailed

SpecReport == ReportInit /\ [][ReportNext]_vars

\* C25: the intake handler reads the PDF for the attachment only when the
\* file is completely written, and answers report_generated true with the
\* report link only when the file is completely written.
C25_ReportWrittenBeforeUse ==
    /\ report.read \in {"none", "complete"}
    /\ report.response = "ok" => report.fileAtResponse = "complete"

-----------------------------------------------------------------------------
\* review.js: the review panel. STATE of the page, the requests it has sent
\* and whose responses have not arrived, and the approvals directory of the
\* server it talks to. A response arrives at any time after its request,
\* in any order, with success or with an error.

\* the requests the page may have in flight at once
MaxInFlight == 2

DecisionButtons == {"APPROVE", "DEBRIEF"}

NoObj == [case_id |-> "none", status |-> "none"]
ApprovalObj(c, st) == [case_id |-> c, status |-> st]

Request(kind, c, obj, fin, saved) ==
    [kind |-> kind, case |-> c, obj |-> obj, fin |-> fin, saved |-> saved]

\* lines 71-75: approvalFile and selectedCaseId follow the selected draft
PanelStart(stored) ==
    [pc |-> "open", selectedDraftFile |-> "none", draftObj |-> "none",
     approvalObj |-> NoObj, decisionStatus |-> "none", requests |-> {},
     approvals |-> stored, finalize |-> "none", generated |-> "none"]

Send(p, r) == [p EXCEPT !.requests = @ \cup {r}]
Arrived(p, r) == [p EXCEPT !.requests = @ \ {r}]

\* lines 116-122, up to the first await: select the draft, request it
ClickDraft(c) ==
    /\ panel.pc = "open"
    /\ Cardinality(panel.requests) < MaxInFlight
    /\ panel' = Send([panel EXCEPT !.selectedDraftFile = c],
                     Request("draft", c, NoObj, FALSE, FALSE))
    /\ UNCHANGED <<report, page, wfVars, seVars, fnVars>>

\* lines 195-202 on the response, then lines 243-249 of the click handler that
\* awaited it: the approval of the case selected by now is requested
DraftResponse(r, ok) ==
    /\ panel.pc = "open"
    /\ r \in panel.requests /\ r.kind = "draft"
    /\ LET p == [Arrived(panel, r) EXCEPT !.draftObj = IF ok THEN r.case ELSE "none"]
       IN  panel' = Send(p, Request("approval", p.selectedDraftFile, NoObj, FALSE, FALSE))
    /\ UNCHANGED <<report, page, wfVars, seVars, fnVars>>

\* lines 250-269 on the response: the approval read, or null when there is none
ApprovalResponse(r) ==
    /\ panel.pc = "open"
    /\ r \in panel.requests /\ r.kind = "approval"
    /\ LET stored == panel.approvals[r.case]
       IN  panel' = [Arrived(panel, r) EXCEPT
                        !.approvalObj = stored,
                        !.decisionStatus = stored.status]
    /\ UNCHANGED <<report, page, wfVars, seVars, fnVars>>

\* lines 378-383
ClickDecision(st) ==
    /\ panel.pc = "open"
    /\ panel.decisionStatus # st
    /\ panel' = [panel EXCEPT !.decisionStatus = st]
    /\ UNCHANGED <<report, page, wfVars, seVars, fnVars>>

\* lines 272-317: the loaded approval object is cloned, a fresh one is made
\* for the selected case only when none is loaded
buildApprovalObject(p) ==
    IF p.approvalObj # NoObj
    THEN [p.approvalObj EXCEPT !.status = p.decisionStatus]
    ELSE ApprovalObj(p.selectedDraftFile, p.decisionStatus)

\* lines 319-327: the request of saveApproval, for the button (fin FALSE) and
\* inside finalizeAndGenerate (fin TRUE, lines 336-342)
SaveRequest(p, fin) ==
    Request("save", p.selectedDraftFile, buildApprovalObject(p), fin, FALSE)

CanSave(p) == p.selectedDraftFile # "none" /\ p.decisionStatus # "none"

ClickSaveApproval ==
    /\ panel.pc = "open"
    /\ CanSave(panel)
    /\ Cardinality(panel.requests) < MaxInFlight
    /\ panel' = Send(panel, SaveRequest(panel, FALSE))
    /\ UNCHANGED <<report, page, wfVars, seVars, fnVars>>

ClickFinalize ==
    /\ panel.pc = "open"
    /\ CanSave(panel)
    /\ Cardinality(panel.requests) < MaxInFlight
    /\ panel' = Send(panel, SaveRequest(panel, TRUE))
    /\ UNCHANGED <<report, page, wfVars, seVars, fnVars>>

\* lines 342-347: what finalizeAndGenerate does once saveApproval has returned
ThenFinalize(p, r, saved) ==
    IF r.fin
    THEN Send(p, Request("finalize", p.selectedDraftFile, NoObj, FALSE, saved))
    ELSE p

\* lines 327-333: the save is stored and answered, or it fails and the catch
\* of saveApproval reports it; either way saveApproval returns normally
SaveResponse(r, ok) ==
    /\ panel.pc = "open"
    /\ r \in panel.requests /\ r.kind = "save"
    /\ LET p == IF ok
                THEN [Arrived(panel, r) EXCEPT !.approvalObj = r.obj,
                                               !.approvals[r.case] = r.obj]
                ELSE Arrived(panel, r)
       IN  panel' = ThenFinalize(p, r, ok)
    /\ UNCHANGED <<report, page, wfVars, seVars, fnVars>>

\* lines 347-367: the server has generated the PDFs, or the request failed
FinalizeResponse(r, ok) ==
    /\ panel.pc = "open"
    /\ r \in panel.requests /\ r.kind = "finalize"
    /\ panel' = [Arrived(panel, r) EXCEPT
                    !.finalize = IF r.saved THEN "after save" ELSE "after failed save",
                    !.generated = IF ~ok THEN @
                                  ELSE IF r.saved THEN "saved decision"
                                  ELSE "unsaved decision"]
    /\ UNCHANGED <<report, page, wfVars, seVars, fnVars>>

\* the approvals directory at page load: a template for some of the cases
Approvals ==
    { [c \in Cases |-> IF c \in S THEN ApprovalObj(c, "APPROVE") ELSE NoObj] :
        S \in SUBSET Cases }

PanelInit ==
    /\ \E stored \in Approvals : panel = PanelStart(stored)
    /\ ReportIdle /\ PageIdle
    /\ WfIdle /\ SeIdle /\ FnIdle

PanelNext ==
    \/ \E c \in Cases : ClickDraft(c)
    \/ \E r \in panel.requests, ok \in BOOLEAN : DraftResponse(r, ok)
    \/ \E r \in panel.requests : ApprovalResponse(r)
    \/ \E st \in DecisionButtons : ClickDecision(st)
    \/ ClickSaveApproval
    \/ ClickFinalize
    \/ \E r \in panel.requests, ok \in BOOLEAN : SaveResponse(r, ok)
    \/ \E r \in panel.requests, ok \in BOOLEAN : FinalizeResponse(r, ok)

SpecPanel == PanelInit /\ [][PanelNext]_vars

\* C28: every finalize request the panel sends follows a saveApproval that
\* succeeded, and PDFs are generated only from a saved decision.
C28_FinalizeOnlyAfterSave ==
    /\ \A r \in panel.requests : r.kind = "finalize" => r.saved
    /\ panel.finalize # "after failed save"
    /\ panel.generated # "unsaved decision"

\* C29: once no request is pending, the draft and approval objects of STATE
\* belong to the selected draft, and every stored approval carries the case id
\* of its own file.
C29_LoadedObjectsAreOfSelection ==
    /\ panel.requests = {} =>
          /\ panel.draftObj \in {"none", panel.selectedDraftFile}
          /\ panel.approvalObj.case_id \in {"none", panel.selectedDraftFile}
    /\ \A c \in Cases : panel.approvals[c].case_id \in {"none", c}

-----------------------------------------------------------------------------
\* questionnaire.js: the page of one session. Each click on Next starts its
\* own asynchronous handler; the responses to its POST of the answer and to
\* its GET of the next question arrive at any later time.

\* the questions the server hands out before it answers done
MaxQuestions == 2

\* the times the answer to one displayed question is posted
MaxPosts == 2

PageStart(disabled) ==
    [pc |-> "open", currentQuestion |-> "none", selected |-> FALSE,
     typedEnough |-> FALSE, disabled |-> disabled, controls |-> FALSE,
     posts |-> 0, gets |-> 1, shown |-> 0, postedThis |-> 0]

\* lines 66-76
enableNextIfReady(p) ==
    IF p.currentQuestion = "none" THEN p
    ELSE IF p.currentQuestion = "open_text"
         THEN [p EXCEPT !.disabled = ~p.typedEnough]
         ELSE [p EXCEPT !.disabled = ~p.selected]

\* lines 78-114 and 116-162: a question is displayed afresh
Render(p, type) ==
    enableNextIfReady([p EXCEPT !.selected = FALSE, !.typedEnough = FALSE,
                                !.currentQuestion = type, !.controls = TRUE,
                                !.shown = @ + 1, !.postedThis = 0])

\* lines 164-173: the options give way to the closing text
finalizeAndShowPDFs(p) == [p EXCEPT !.disabled = TRUE, !.controls = FALSE]

\* lines 222-237 on the response to GET next; an error ends in the catch of
\* the click handler (lines 266-269), or in that of the first load (273-275)
NextResponse(out) ==
    /\ page.pc = "open"
    /\ page.gets > 0
    /\ out \in {"options", "open_text"} => page.shown < MaxQuestions
    /\ LET p == [page EXCEPT !.gets = @ - 1]
       IN  page' = CASE out = "done" -> finalizeAndShowPDFs(p)
                     [] out = "error" -> enableNextIfReady(p)
                     [] OTHER -> Render(p, out)
    /\ UNCHANGED <<report, panel, wfVars, seVars, fnVars>>

\* lines 147-152
ClickOption ==
    /\ page.pc = "open"
    /\ page.currentQuestion = "options" /\ page.controls
    /\ page' = enableNextIfReady([page EXCEPT !.selected = TRUE])
    /\ UNCHANGED <<report, panel, wfVars, seVars, fnVars>>

\* lines 102-107: the text typed reaches the minimum length, or does not
InputText(enough) ==
    /\ page.pc = "open"
    /\ page.currentQuestion = "open_text" /\ page.controls
    /\ page' = enableNextIfReady([page EXCEPT !.typedEnough = enough])
    /\ UNCHANGED <<report, panel, wfVars, seVars, fnVars>>

\* lines 239-262, up to the await of the POST; a disabled button gets no click
ClickNext ==
    /\ page.pc = "open"
    /\ ~page.disabled
    /\ page.currentQuestion # "none"
    /\ page.posts + page.gets < MaxInFlight
    /\ page.postedThis < MaxPosts
    /\ page' = IF page.currentQuestion = "options" /\ ~page.selected
               THEN enableNextIfReady([page EXCEPT !.disabled = TRUE])
               ELSE [page EXCEPT !.disabled = TRUE, !.posts = @ + 1,
                                 !.postedThis = @ + 1]
    /\ UNCHANGED <<report, panel, wfVars, seVars, fnVars>>

\* lines 264-269: after the POST the next question is requested; a failed
\* POST ends in the catch
AnswerResponse(ok) ==
    /\ page.pc = "open"
    /\ page.posts > 0
    /\ LET p == [page EXCEPT !.posts = @ - 1]
       IN  page' = IF ok THEN [p EXCEPT !.gets = @ + 1] ELSE enableNextIfReady(p)
    /\ UNCHANGED <<report, panel, wfVars, seVars, fnVars>>

PageInit ==
    /\ \E disabled \in BOOLEAN : page = PageStart(disabled)
    /\ ReportIdle /\ PanelIdle
    /\ WfIdle /\ SeIdle /\ FnIdle

PageNext ==
    \/ \E out \in {"options", "open_text", "done", "error"} : NextResponse(out)
    \/ ClickOption
    \/ \E enough \in BOOLEAN : InputText(enough)
    \/ ClickNext
    \/ \E ok \in BOOLEAN : AnswerResponse(ok)

SpecPage == PageInit /\ [][PageNext]_vars

\* C30: while an answer POST is in flight the Next button is disabled, at
\* most one answer request is in flight, and the answer to the displayed
\* question has been posted at most once.
C30_NextDisabledWhilePosting ==
    /\ page.posts > 0 => page.disabled
    /\ page.posts <= 1
    /\ page.postedThis <= 1

=============================================================================
